---- MODULE Spec2Model ----
(***************************************************************************)
(* QMI8658A IMU driver (src/src/qmi8658a.rs): the register protocol over   *)
(* an I2C transport, the Config bit-field builder and the data-ready       *)
(* polling protocol of read_imu_data.                                      *)
(*                                                                         *)
(* The transport is the environment: every bus transaction either fails    *)
(* with one of Errors or succeeds, a write_read then filling its buffer    *)
(* with bytes the device chooses.  `bus` is the list of the transactions   *)
(* the current (or last) driver call has issued, in order.                 *)
(***************************************************************************)
EXTENDS Integers, Sequences, FiniteSets

VARIABLES
    address,     \* Qmi8658a.address, fixed by Qmi8658a::new
    config,      \* the Config value the caller builds and hands to initialize
    applied,     \* the builder options chained onto Config::default() so far
    op,          \* the driver operation called last ("none" before any call)
    pc,          \* where the caller / the running call is
    status_int,  \* read_imu_data's local status_int
    turn,        \* parity of the turns read_imu_data's while loop has taken
    bus,         \* the bus transactions of the current call, oldest first
    result       \* what the call returned

vars == <<address, config, applied, op, pc, status_int, turn, bus, result>>

(***************************************************************************)
(* Bounds and input sets.                                                  *)
(***************************************************************************)
\* Most status reads the sensor answers with LOCKED clear inside one call.
MaxPolls == 3

\* Device addresses a caller constructs the driver with.
Addresses == {106, 107}

\* Errors the transport can report (I2C::Error is opaque to the driver).
Errors == {"Nack", "ArbitrationLoss"}

Byte == 0 .. 255

\* Status bytes the sensor answers to read_imu_data: every combination of
\* AVAILABLE and LOCKED, with the other six bits all clear or all set.
ImuStatusBytes == {0, 1, 2, 3, 252, 253, 254, 255}

\* Bytes the sensor answers to the temperature read.
TempBytes == {0, 1, 127, 128, 255}

ExampleBurst == <<1, 0, 2, 0, 255, 255, 0, 0, 0, 0, 0, 128>>

\* 12-byte blocks the sensor answers to the burst read: the worked example,
\* a block whose bytes are all different, the extremes, and blocks with a
\* single non-zero byte at each of the twelve positions.
Bursts ==
    {ExampleBurst,
     <<1, 2, 3, 4, 5, 6, 7, 8, 9, 10, 11, 12>>,
     <<255, 127, 0, 128, 255, 255, 1, 128, 254, 255, 128, 0>>}
    \cup {[i \in 1 .. 12 |-> IF i = k THEN 255 ELSE 0] : k \in 1 .. 12}
    \cup {[i \in 1 .. 12 |-> IF i = k THEN 128 ELSE 0] : k \in 1 .. 12}

(***************************************************************************)
(* u8 arithmetic.                                                          *)
(***************************************************************************)
RECURSIVE Pow2(_)
Pow2(n) == IF n = 0 THEN 1 ELSE 2 * Pow2(n - 1)

\* 1 << n on a u8
Shl1(n) == Pow2(n) % 256

RECURSIVE BitAndN(_, _, _)
BitAndN(a, b, n) ==
    IF n = 0 THEN 0
    ELSE (IF a % 2 = 1 /\ b % 2 = 1 THEN 1 ELSE 0)
         + 2 * BitAndN(a \div 2, b \div 2, n - 1)

RECURSIVE BitOrN(_, _, _)
BitOrN(a, b, n) ==
    IF n = 0 THEN 0
    ELSE (IF a % 2 = 1 \/ b % 2 = 1 THEN 1 ELSE 0)
         + 2 * BitOrN(a \div 2, b \div 2, n - 1)

\* a & b, a | b and !a on u8
BitAnd(a, b) == BitAndN(a, b, 8)
BitOr(a, b) == BitOrN(a, b, 8)
BitNot(a) == 255 - a

(***************************************************************************)
(* Constants of the driver.                                                *)
(***************************************************************************)
STATUS_INT_AVAIL == 1
STATUS_INT_LOCKED == 2

WHO_AM_I == 0
CTRL1 == 2
CTRL7 == 8
STATUSINT == 45
TEMP_L == 51
AX_L == 53

(***************************************************************************)
(* Config: Default and the twelve builder options.                         *)
(***************************************************************************)
\* Faulty variant of Config::default(): both registers start from zero.
DefaultConfig_AllZero == [ctrl1 |-> 0, ctrl7 |-> 0]

DefaultConfig == [ctrl1 |-> 32, ctrl7 |-> 0]

with_internal_high_speed_oscillator_disabled(c) ==
    [c EXCEPT !.ctrl1 = BitOr(@, Shl1(0))]

\* Faulty variant of with_fifo_interrupt_mapped_to_int1: the bit is off by one.
with_fifo_interrupt_mapped_to_int1_Bit1(c) ==
    [c EXCEPT !.ctrl1 = BitOr(@, Shl1(1))]

with_fifo_interrupt_mapped_to_int1(c) ==
    [c EXCEPT !.ctrl1 = BitOr(@, Shl1(2))]

with_int1_pin_output_enabled(c) ==
    [c EXCEPT !.ctrl1 = BitOr(@, Shl1(3))]

with_int2_pin_output_enabled(c) ==
    [c EXCEPT !.ctrl1 = BitOr(@, Shl1(4))]

\* Faulty variant of with_little_endian_data: the bit is set, like every other
\* option, instead of cleared.
with_little_endian_data_SettingBit(c) ==
    [c EXCEPT !.ctrl1 = BitOr(@, Shl1(5))]

with_little_endian_data(c) ==
    [c EXCEPT !.ctrl1 = BitAnd(@, BitNot(Shl1(5)))]

with_address_auto_increment(c) ==
    [c EXCEPT !.ctrl1 = BitOr(@, Shl1(6))]

with_3_wire_spi(c) ==
    [c EXCEPT !.ctrl1 = BitOr(@, Shl1(7))]

with_accelerometer_enabled(c) ==
    [c EXCEPT !.ctrl7 = BitOr(@, Shl1(0))]

\* Faulty variant of with_gyroscope_enabled: the mask is added, not ORed.
with_gyroscope_enabled_Adding(c) ==
    [c EXCEPT !.ctrl7 = (@ + Shl1(1)) % 256]

with_gyroscope_enabled(c) ==
    [c EXCEPT !.ctrl7 = BitOr(@, Shl1(1))]

with_gyro_in_snooze_mode(c) ==
    [c EXCEPT !.ctrl7 = BitOr(@, Shl1(4))]

with_data_ready_disabled(c) ==
    [c EXCEPT !.ctrl7 = BitOr(@, Shl1(5))]

with_sync_sample_enabled(c) ==
    [c EXCEPT !.ctrl7 = BitOr(@, Shl1(7))]

Options ==
    {"internal_high_speed_oscillator_disabled", "fifo_interrupt_mapped_to_int1",
     "int1_pin_output_enabled", "int2_pin_output_enabled", "little_endian_data",
     "address_auto_increment", "3_wire_spi", "accelerometer_enabled",
     "gyroscope_enabled", "gyro_in_snooze_mode", "data_ready_disabled",
     "sync_sample_enabled"}

\* The builder method named o, applied to c.
ApplyOption(o, c) ==
    CASE o = "internal_high_speed_oscillator_disabled" ->
             with_internal_high_speed_oscillator_disabled(c)
      [] o = "fifo_interrupt_mapped_to_int1" -> with_fifo_interrupt_mapped_to_int1(c)
      [] o = "int1_pin_output_enabled" -> with_int1_pin_output_enabled(c)
      [] o = "int2_pin_output_enabled" -> with_int2_pin_output_enabled(c)
      [] o = "little_endian_data" -> with_little_endian_data(c)
      [] o = "address_auto_increment" -> with_address_auto_increment(c)
      [] o = "3_wire_spi" -> with_3_wire_spi(c)
      [] o = "accelerometer_enabled" -> with_accelerometer_enabled(c)
      [] o = "gyroscope_enabled" -> with_gyroscope_enabled(c)
      [] o = "gyro_in_snooze_mode" -> with_gyro_in_snooze_mode(c)
      [] o = "data_ready_disabled" -> with_data_ready_disabled(c)
      [] o = "sync_sample_enabled" -> with_sync_sample_enabled(c)

(***************************************************************************)
(* Results and bus transactions.                                           *)
(*   Ok(v): v is a sequence: <<>> for () and for None, <<x>> for a value x  *)
(*   or Some(x).                                                           *)
(***************************************************************************)
Pending == [tag |-> "Pending", err |-> "-", val |-> <<>>]
Ok(v) == [tag |-> "Ok", err |-> "-", val |-> v]
Err(e) == [tag |-> "Err", err |-> e, val |-> <<>>]
Panic == [tag |-> "Panic", err |-> "-", val |-> <<>>]

\* i2c.write(addr, bytes) answered res ("Ok" or an error).
WriteTxn(addr, bytes, res) ==
    [kind |-> "write", addr |-> addr, wr |-> bytes, len |-> 0,
     res |-> res, rd |-> <<>>]

\* Faulty variant of the reads: the usual device address 0x6B is used instead
\* of the one the driver was constructed with.
ReadTxn_FixedAddress(addr, reg, len, res, rd) ==
    [kind |-> "write_read", addr |-> 107, wr |-> <<reg>>, len |-> len,
     res |-> res, rd |-> IF res = "Ok" THEN rd ELSE <<>>]

\* i2c.write_read(addr, &[reg], buf) with a buffer of len bytes, answered res;
\* rd is what the buffer holds afterwards when res is "Ok".
ReadTxn(addr, reg, len, res, rd) ==
    [kind |-> "write_read", addr |-> addr, wr |-> <<reg>>, len |-> len,
     res |-> res, rd |-> IF res = "Ok" THEN rd ELSE <<>>]

\* Faulty variant of the decoding: the bytes are taken high byte first.
I16FromLeBytes_BigEndian(b) ==
    LET u == b[2] + 256 * b[1]
    IN  IF u >= 32768 THEN u - 65536 ELSE u

\* i16::from_le_bytes
I16FromLeBytes(b) ==
    LET u == b[1] + 256 * b[2]
    IN  IF u >= 32768 THEN u - 65536 ELSE u


\* imu[a..b]: the bytes at 0-based positions a .. b-1; Rust panics when the
\* range does not lie inside the buffer.
SliceInRange(s, a, b) == a <= b /\ b <= Len(s)
Slice(s, a, b) == SubSeq(s, a + 1, b)

\* Faulty variant of the field ranges: the last range is one byte too long.
FieldRange_Overlong ==
    [accel_x |-> <<0, 2>>, accel_y |-> <<2, 4>>, accel_z |-> <<4, 6>>,
     gyro_x |-> <<6, 8>>, gyro_y |-> <<8, 10>>, gyro_z |-> <<10, 13>>]

\* The byte range of the burst buffer each ImuData field is decoded from.
FieldRange ==
    [accel_x |-> <<0, 2>>, accel_y |-> <<2, 4>>, accel_z |-> <<4, 6>>,
     gyro_x |-> <<6, 8>>, gyro_y |-> <<8, 10>>, gyro_z |-> <<10, 12>>]

\* slice.try_into().unwrap() into [u8; 2] panics unless the slice has 2 bytes.
DecodePanics(imu) ==
    \E f \in DOMAIN FieldRange :
        \/ ~SliceInRange(imu, FieldRange[f][1], FieldRange[f][2])
        \/ Len(Slice(imu, FieldRange[f][1], FieldRange[f][2])) # 2

ImuData(imu) ==
    [f \in DOMAIN FieldRange |->
        I16FromLeBytes(Slice(imu, FieldRange[f][1], FieldRange[f][2]))]

(***************************************************************************)
(* The driver operations, as functions of the transport's answers: r is    *)
(* the answer to a transaction ("Ok" or an error) and b the bytes read.    *)
(* Each gives the transactions issued and the value returned.              *)
(***************************************************************************)
Responses == {"Ok"} \cup Errors

\* Faulty variant of read_chip_id: an identity other than 0x05 is refused.
read_chip_id_Validating(addr, r, b) ==
    [bus |-> <<ReadTxn(addr, WHO_AM_I, 1, r, <<b>>)>>,
     result |-> IF r # "Ok" THEN Err(r)
                ELSE IF b # 5 THEN Err("Nack") ELSE Ok(<<b>>)]

read_chip_id(addr, r, b) ==
    [bus |-> <<ReadTxn(addr, WHO_AM_I, 1, r, <<b>>)>>,
     result |-> IF r # "Ok" THEN Err(r) ELSE Ok(<<b>>)]

\* Faulty variant of initialize: when the CTRL7 write fails, CTRL1 is written
\* back to its reset value.
initialize_RollingBack(addr, cfg, r1, r2) ==
    LET t1 == WriteTxn(addr, <<CTRL1, cfg.ctrl1>>, r1)
        t2 == WriteTxn(addr, <<CTRL7, cfg.ctrl7>>, r2)
        t3 == WriteTxn(addr, <<CTRL1, 32>>, "Ok")
    IN  IF r1 # "Ok" THEN [bus |-> <<t1>>, result |-> Err(r1)]
        ELSE IF r2 # "Ok" THEN [bus |-> <<t1, t2, t3>>, result |-> Err(r2)]
        ELSE [bus |-> <<t1, t2>>, result |-> Ok(<<>>)]

\* Faulty variant of initialize: the CTRL1 write's error is dropped and CTRL7
\* is written regardless.
initialize_IgnoringCtrl1Error(addr, cfg, r1, r2) ==
    LET t1 == WriteTxn(addr, <<CTRL1, cfg.ctrl1>>, r1)
        t2 == WriteTxn(addr, <<CTRL7, cfg.ctrl7>>, r2)
    IN  IF r2 # "Ok" THEN [bus |-> <<t1, t2>>, result |-> Err(r2)]
        ELSE [bus |-> <<t1, t2>>, result |-> Ok(<<>>)]

initialize(addr, cfg, r1, r2) ==
    LET t1 == WriteTxn(addr, <<CTRL1, cfg.ctrl1>>, r1)
        t2 == WriteTxn(addr, <<CTRL7, cfg.ctrl7>>, r2)
    IN  IF r1 # "Ok" THEN [bus |-> <<t1>>, result |-> Err(r1)]
        ELSE IF r2 # "Ok" THEN [bus |-> <<t1, t2>>, result |-> Err(r2)]
        ELSE [bus |-> <<t1, t2>>, result |-> Ok(<<>>)]

\* Faulty variant of read_temperature: it waits for the status register first,
\* as read_imu_data does, and reads the temperature only with AVAILABLE set.
read_temperature_AfterStatus(addr, r, b) ==
    LET st == ReadTxn(addr, STATUSINT, 1, r, <<b[1]>>)
        t == ReadTxn(addr, TEMP_L, 2, r, b)
    IN  IF r # "Ok" THEN [bus |-> <<st>>, result |-> Err(r)]
        ELSE [bus |-> <<st, t>>, result |-> Ok(<<I16FromLeBytes(b)>>)]

read_temperature(addr, r, b) ==
    [bus |-> <<ReadTxn(addr, TEMP_L, 2, r, b)>>,
     result |-> IF r # "Ok" THEN Err(r) ELSE Ok(<<I16FromLeBytes(b)>>)]

\* Faulty variant of read_status_int: a status byte with a reserved bit set is
\* refused.
read_status_int_RefusingReserved(addr, r, b) ==
    [bus |-> <<ReadTxn(addr, STATUSINT, 1, r, <<b>>)>>,
     result |-> IF r # "Ok" THEN Err(r)
                ELSE IF b > 3 THEN Err("Nack") ELSE Ok(<<b>>)]

\* Faulty variant of read_status_int: a failed read is answered as status 0.
read_status_int_SwallowingError(addr, r, b) ==
    [bus |-> <<ReadTxn(addr, STATUSINT, 1, r, <<b>>)>>,
     result |-> IF r # "Ok" THEN Ok(<<0>>) ELSE Ok(<<b>>)]

read_status_int(addr, r, b) ==
    [bus |-> <<ReadTxn(addr, STATUSINT, 1, r, <<b>>)>>,
     result |-> IF r # "Ok" THEN Err(r) ELSE Ok(<<b>>)]

\* Faulty variants of the two tests: either flag counts as AVAILABLE; the
\* loop waits for AVAILABLE instead of LOCKED.
DataAvailable_AnyFlag(s) ==
    BitAnd(s, BitOr(STATUS_INT_AVAIL, STATUS_INT_LOCKED)) # 0
\* Faulty variants of the LOCKED test: the loop ends only when AVAILABLE and
\* LOCKED are both set; the whole status byte is compared, unmasked.
DataLocked_BothFlags(s) ==
    BitAnd(s, BitOr(STATUS_INT_AVAIL, STATUS_INT_LOCKED))
        = BitOr(STATUS_INT_AVAIL, STATUS_INT_LOCKED)
DataLocked_Unmasked(s) == s = BitOr(STATUS_INT_AVAIL, STATUS_INT_LOCKED)
DataLocked_TestingAvail(s) == BitAnd(s, STATUS_INT_AVAIL) = STATUS_INT_AVAIL

\* The two tests of read_imu_data on status_int.
DataAvailable(s) == BitAnd(s, STATUS_INT_AVAIL) = STATUS_INT_AVAIL
DataLocked(s) == BitAnd(s, STATUS_INT_LOCKED) = STATUS_INT_LOCKED

\* The burst read and its decoding, the tail of read_imu_data.
read_imu_burst(addr, r, imu) ==
    [bus |-> <<ReadTxn(addr, AX_L, 12, r, imu)>>,
     result |-> IF r # "Ok" THEN Err(r)
                ELSE IF DecodePanics(imu) THEN Panic
                ELSE Ok(<<ImuData(imu)>>)]

(***************************************************************************)
(* State machine.                                                          *)
(*   pc = "idle"      no call is running and the caller holds no Config    *)
(*        "build"     the caller holds a Config and chains options onto it *)
(*        "imu_wait"  read_imu_data is at its while test, AVAILABLE seen   *)
(*        "ret"       the call of `op` has returned `result`               *)
(*        "panic"     the call of `op` panicked                            *)
(***************************************************************************)
Init ==
    /\ address \in Addresses
    /\ config = DefaultConfig
    /\ applied = {}
    /\ op = "none"
    /\ pc = "idle"
    /\ status_int = 0
    /\ turn = 0
    /\ bus = <<>>
    /\ result = Pending

\* The caller can start something new: no call is running.
Quiescent == pc = "idle"

\* A call that runs to its return in one step: it consumed any Config value.
Returns(o, out) ==
    /\ op' = o
    /\ bus' = out.bus
    /\ result' = out.result
    /\ pc' = "ret"
    /\ status_int' = 0
    /\ turn' = 0
    /\ UNCHANGED address

\* Config::default(): the caller starts a new Config.
ConfigDefault ==
    /\ Quiescent
    /\ config' = DefaultConfig
    /\ applied' = {}
    /\ pc' = "build"
    /\ UNCHANGED <<address, op, status_int, turn, bus, result>>

\* The caller has looked at what the call returned and drops it.
Done ==
    /\ pc = "ret"
    /\ pc' = "idle"
    /\ op' = "none"
    /\ config' = DefaultConfig
    /\ applied' = {}
    /\ bus' = <<>>
    /\ result' = Pending
    /\ status_int' = 0
    /\ turn' = 0
    /\ UNCHANGED address

\* config.with_<o>()
With(o) ==
    /\ pc = "build"
    /\ config' = ApplyOption(o, config)
    /\ applied' = applied \cup {o}
    /\ UNCHANGED <<address, op, pc, status_int, turn, bus, result>>

\* imu.initialize(config)
Initialize ==
    /\ pc = "build"
    /\ \E r1 \in Responses, r2 \in Responses :
           Returns("initialize", initialize(address, config, r1, r2))
    /\ UNCHANGED <<config, applied>>

\* imu.read_chip_id()
ReadChipId ==
    /\ Quiescent
    /\ \E r \in Responses, b \in Byte :
           Returns("read_chip_id", read_chip_id(address, r, b))
    /\ UNCHANGED <<config, applied>>

\* imu.read_temperature()
ReadTemperature ==
    /\ Quiescent
    /\ \E r \in Responses, lo \in TempBytes, hi \in TempBytes :
           Returns("read_temperature", read_temperature(address, r, <<lo, hi>>))
    /\ UNCHANGED <<config, applied>>

\* imu.read_status_int()
ReadStatusInt ==
    /\ Quiescent
    /\ \E r \in Responses, b \in Byte :
           Returns("read_status_int", read_status_int(address, r, b))
    /\ UNCHANGED <<config, applied>>

\* imu.read_imu_data(), up to its while loop: the first status read and the
\* AVAILABLE test.
ReadImuData ==
    /\ Quiescent
    /\ op' = "read_imu_data"
    /\ turn' = 0
    /\ UNCHANGED <<address, config, applied>>
    /\ \E r \in Responses, b \in ImuStatusBytes :
           LET st == read_status_int(address, r, b)
           IN  /\ bus' = st.bus
               /\ IF st.result.tag = "Err"
                  THEN /\ result' = st.result
                       /\ status_int' = 0
                       /\ pc' = "ret"
                  ELSE /\ status_int' = st.result.val[1]
                       /\ IF ~DataAvailable(st.result.val[1])
                          THEN result' = Ok(<<>>) /\ pc' = "ret"
                          ELSE result' = Pending /\ pc' = "imu_wait"

\* The transaction list kept while the loop runs without bound: the first
\* status read and the latest MaxPolls polls.
Window(b) ==
    IF Len(b) > MaxPolls + 1 THEN <<b[1]>> \o SubSeq(b, 3, Len(b)) ELSE b

\* Faulty variant of the while loop: it gives up with Ok(None) when the second
\* poll still finds LOCKED clear.
ImuPollStep_GivingUp(unbounded) ==
    /\ pc = "imu_wait"
    /\ ~DataLocked(status_int)
    /\ \E r \in Responses, b \in ImuStatusBytes :
           LET st == read_status_int(address, r, b)
           IN  /\ bus' = bus \o st.bus
               /\ IF st.result.tag = "Err"
                  THEN result' = st.result /\ pc' = "ret" /\ UNCHANGED status_int
                  ELSE /\ status_int' = st.result.val[1]
                       /\ IF Len(bus) >= 2 /\ ~DataLocked(st.result.val[1])
                          THEN result' = Ok(<<>>) /\ pc' = "ret"
                          ELSE UNCHANGED <<result, pc>>
    /\ turn' = (turn + 1) % 2
    /\ UNCHANGED <<address, config, applied, op>>

\* One turn of the while loop: LOCKED is clear in status_int, read the status
\* again.  The loop has no bound of its own: with unbounded = FALSE the sensor
\* answers LOCKED clear at most MaxPolls times in a call and `bus` is the whole
\* call; with unbounded = TRUE it may do so forever and `bus` is a Window.
\* Every turn is a step of its own, also when the sensor answers the byte it
\* answered before: `turn` changes with each.
ImuPollStep(unbounded) ==
    /\ pc = "imu_wait"
    /\ ~DataLocked(status_int)
    /\ \E r \in Responses, b \in ImuStatusBytes :
           LET st == read_status_int(address, r, b)
           IN  /\ (~unbounded /\ r = "Ok" /\ ~DataLocked(b)) => Len(bus) <= MaxPolls
               /\ bus' = IF unbounded THEN Window(bus \o st.bus) ELSE bus \o st.bus
               /\ IF st.result.tag = "Err"
                  THEN result' = st.result /\ pc' = "ret" /\ UNCHANGED status_int
                  ELSE /\ status_int' = st.result.val[1]
                       /\ UNCHANGED <<result, pc>>
    /\ turn' = (turn + 1) % 2
    /\ UNCHANGED <<address, config, applied, op>>

ImuPoll == ImuPollStep(FALSE)
ImuPollUnbounded == ImuPollStep(TRUE)

\* The loop is over: LOCKED is set in status_int; burst-read and decode.
ImuBurst ==
    /\ pc = "imu_wait"
    /\ DataLocked(status_int)
    /\ \E r \in Responses, imu \in Bursts :
           LET out == read_imu_burst(address, r, imu)
           IN  /\ bus' = bus \o out.bus
               /\ result' = out.result
               /\ pc' = IF out.result.tag = "Panic" THEN "panic" ELSE "ret"
    /\ UNCHANGED <<address, config, applied, op, status_int, turn>>

Next ==
    \/ Done
    \/ ConfigDefault
    \/ \E o \in Options : With(o)
    \/ Initialize
    \/ ReadChipId
    \/ ReadTemperature
    \/ ReadStatusInt
    \/ ReadImuData
    \/ ImuPoll
    \/ ImuBurst

Spec == Init /\ [][Next]_vars

\* read_imu_data alone, with a sensor that may leave LOCKED clear forever.
\* The driver is sequential and every bus transaction is blocking and returns,
\* so a running call keeps taking its next step; a sensor that answers the
\* same LOCKED-clear byte for ever keeps the call in its loop for ever.
NextLive ==
    \/ Done
    \/ ReadImuData
    \/ ImuPollUnbounded
    \/ ImuBurst

LiveSpec ==
    Init /\ [][NextLive]_vars /\ WF_vars(ImuPollUnbounded) /\ WF_vars(ImuBurst)

(***************************************************************************)
(* Vocabulary of the properties: what the transactions on the bus are.     *)
(***************************************************************************)
\* Bit n of byte x is set.
BitSet(x, n) == (x \div Pow2(n)) % 2 = 1

\* A 1-byte read of STATUSINT (0x2D), a 12-byte read at AX_L (0x35).
IsStatusRead(t) == t.kind = "write_read" /\ t.wr = <<45>> /\ t.len = 1
IsBurstRead(t) == t.kind = "write_read" /\ t.wr = <<53>> /\ t.len = 12

\* A status read that succeeded with AVAILABLE (bit 0) / LOCKED (bit 1) set.
SawAvailable(t) == IsStatusRead(t) /\ t.res = "Ok" /\ BitSet(t.rd[1], 0)
SawLocked(t) == IsStatusRead(t) /\ t.res = "Ok" /\ BitSet(t.rd[1], 1)

InImu == op = "read_imu_data"
Returned(o) == op = o /\ pc = "ret"
\* read_imu_data returned Ok(Some(sample))
ReturnedSample == Returned("read_imu_data") /\ result.tag = "Ok" /\ Len(result.val) = 1

\* C1: in read_imu_data a burst read is issued only after the first status
\* read had AVAILABLE set and the status read just before it had LOCKED set;
\* a call that returns a sample issued exactly one burst read, as its last
\* transaction, and only 1-byte STATUSINT reads before it.
C1_BurstAfterAvailableAndLocked ==
    InImu =>
        /\ \A i \in 1 .. Len(bus) :
               IsBurstRead(bus[i]) =>
                   /\ i > 1
                   /\ SawAvailable(bus[1])
                   /\ SawLocked(bus[i - 1])
        /\ ReturnedSample =>
               /\ Len(bus) >= 2
               /\ IsBurstRead(bus[Len(bus)])
               /\ \A i \in 1 .. Len(bus) - 1 : IsStatusRead(bus[i])

\* A sample returned after the LOCKED wait loop ran at least once.
C1_Witness == ReturnedSample /\ Len(bus) >= 3

\* C2: when the first status read of read_imu_data succeeds with AVAILABLE
\* clear, whatever the other bits, the call has returned Ok(None) after that
\* single transaction.
C2_NotAvailableReturnsNone ==
    (InImu /\ Len(bus) >= 1 /\ bus[1].res = "Ok" /\ ~BitSet(bus[1].rd[1], 0)) =>
        /\ pc = "ret"
        /\ result = Ok(<<>>)
        /\ Len(bus) = 1
        /\ IsStatusRead(bus[1])

\* The first status byte had LOCKED set and AVAILABLE clear.
C2_Witness ==
    Returned("read_imu_data") /\ bus[1].res = "Ok" /\ bus[1].rd = <<2>>

\* C3: initialize(config) writes [0x02, config.ctrl1] and then, only when that
\* write succeeded, [0x08, config.ctrl7]; it issues nothing else, returns Ok
\* after exactly these two writes, and returns the CTRL1 write's error after
\* that one transaction.
C3_InitializeWrites ==
    Returned("initialize") =>
        /\ Len(bus) \in {1, 2}
        /\ bus[1] = [kind |-> "write", addr |-> address,
                     wr |-> <<2, config.ctrl1>>, len |-> 0,
                     res |-> bus[1].res, rd |-> <<>>]
        /\ IF bus[1].res = "Ok"
           THEN /\ Len(bus) = 2
                /\ bus[2] = [kind |-> "write", addr |-> address,
                             wr |-> <<8, config.ctrl7>>, len |-> 0,
                             res |-> bus[2].res, rd |-> <<>>]
                /\ (bus[2].res = "Ok") <=> (result = Ok(<<>>))
           ELSE /\ Len(bus) = 1
                /\ result = Err(bus[1].res)

\* initialize succeeded with a Config whose both bytes differ from the default.
C3_Witness ==
    /\ Returned("initialize")
    /\ result.tag = "Ok"
    /\ config.ctrl1 \notin {0, 32}
    /\ config.ctrl7 # 0
    /\ config.ctrl1 # config.ctrl7

\* C4: in every operation a failed transaction is the last one of the call,
\* and the call has returned exactly the error that transaction reported.
C4_ErrorPropagated ==
    \A i \in 1 .. Len(bus) :
        bus[i].res # "Ok" =>
            /\ i = Len(bus)
            /\ pc = "ret"
            /\ result = Err(bus[i].res)

\* A status poll inside the LOCKED wait loop failed: no burst read follows.
C4_Witness ==
    /\ Returned("read_imu_data")
    /\ Len(bus) >= 3
    /\ IsStatusRead(bus[Len(bus)])
    /\ bus[Len(bus)].res = "ArbitrationLoss"
    /\ result.tag = "Err"

\* The OR of the masks of the options in S, per register, each option with the
\* bit the option table gives it (the bits are distinct, so OR is the sum).
SelectedCtrl1Set(S) ==
      (IF "internal_high_speed_oscillator_disabled" \in S THEN 1 ELSE 0)
    + (IF "fifo_interrupt_mapped_to_int1" \in S THEN 4 ELSE 0)
    + (IF "int1_pin_output_enabled" \in S THEN 8 ELSE 0)
    + (IF "int2_pin_output_enabled" \in S THEN 16 ELSE 0)
    + (IF "address_auto_increment" \in S THEN 64 ELSE 0)
    + (IF "3_wire_spi" \in S THEN 128 ELSE 0)

SelectedCtrl1(S) ==
    SelectedCtrl1Set(S) + (IF "little_endian_data" \in S THEN 32 ELSE 0)

SelectedCtrl7(S) ==
      (IF "accelerometer_enabled" \in S THEN 1 ELSE 0)
    + (IF "gyroscope_enabled" \in S THEN 2 ELSE 0)
    + (IF "gyro_in_snooze_mode" \in S THEN 16 ELSE 0)
    + (IF "data_ready_disabled" \in S THEN 32 ELSE 0)
    + (IF "sync_sample_enabled" \in S THEN 128 ELSE 0)

\* C5 as stated: the Config built from the default by the options in `applied`,
\* in whatever order and with whatever repetitions they were chained, has
\* ctrl1 and ctrl7 equal to the OR of the selected options' masks.
C5_OrOfSelectedMasks ==
    pc = "build" =>
        /\ config.ctrl1 = SelectedCtrl1(applied)
        /\ config.ctrl7 = SelectedCtrl7(applied)

\* C5 amended: ctrl7 is the OR of the selected ctrl7 masks; ctrl1 is the OR
\* of the selected ctrl1 masks of the six setting options together with bit 5
\* (0x20), which is set exactly when with_little_endian_data is not selected;
\* the bytes depend on the set of options only, not on order or repetition.
C5_OrOfMasksOverDefault ==
    pc = "build" =>
        /\ config.ctrl1 = SelectedCtrl1Set(applied)
                          + (IF "little_endian_data" \in applied THEN 0 ELSE 32)
        /\ config.ctrl7 = SelectedCtrl7(applied)

\* All twelve options have been chained.
C5_Witness ==
    pc = "build" /\ applied = Options /\ config = [ctrl1 |-> 221, ctrl7 |-> 179]

\* The signed 16-bit value of the little-endian byte pair (lo, hi).
S16(lo, hi) == ((lo + 256 * hi + 32768) % 65536) - 32768

\* C6: a returned sample is the burst's 12 bytes decoded pairwise as
\* little-endian two's-complement 16-bit values in the order accel_x, accel_y,
\* accel_z, gyro_x, gyro_y, gyro_z; after the status bytes 0x01, 0x01, 0x03 the
\* burst is the fourth transaction, and the bytes
\* 01 00 02 00 FF FF 00 00 00 00 00 80 give (1, 2, -1, 0, 0, -32768).
C6_SampleDecoding ==
    ReturnedSample =>
        LET b == bus[Len(bus)].rd
            d == result.val[1]
        IN  /\ Len(b) = 12
            /\ d = [accel_x |-> S16(b[1], b[2]), accel_y |-> S16(b[3], b[4]),
                    accel_z |-> S16(b[5], b[6]), gyro_x |-> S16(b[7], b[8]),
                    gyro_y |-> S16(b[9], b[10]), gyro_z |-> S16(b[11], b[12])]
            /\ \A f \in DOMAIN d : d[f] \in -32768 .. 32767
            /\ (/\ Len(bus) >= 4
                /\ bus[1].rd = <<1>> /\ bus[2].rd = <<1>> /\ bus[3].rd = <<3>>) =>
                   /\ Len(bus) = 4
                   /\ b = <<1, 0, 2, 0, 255, 255, 0, 0, 0, 0, 0, 128>> =>
                          d = [accel_x |-> 1, accel_y |-> 2, accel_z |-> -1,
                               gyro_x |-> 0, gyro_y |-> 0, gyro_z |-> -32768]

\* The worked example: statuses 0x01, 0x01, 0x03 and then the example bytes.
C6_Witness ==
    /\ ReturnedSample
    /\ Len(bus) = 4
    /\ bus[1].rd = <<1>> /\ bus[2].rd = <<1>> /\ bus[3].rd = <<3>>
    /\ bus[4].rd = <<1, 0, 2, 0, 255, 255, 0, 0, 0, 0, 0, 128>>
    /\ result.val[1].gyro_z = -32768

\* C8: no operation panics: a call that has returned did so with Ok or with
\* the error of a failed transaction, and a burst buffer that was read is
\* never one whose decoding panics.
C8_NoPanic ==
    /\ pc # "panic"
    /\ result.tag # "Panic"
    /\ pc = "ret" =>
           \/ result.tag = "Ok"
           \/ result.tag = "Err" /\ result.err = bus[Len(bus)].res
                                 /\ result.err # "Ok"
    /\ \A i \in 1 .. Len(bus) :
           (IsBurstRead(bus[i]) /\ bus[i].res = "Ok") => ~DecodePanics(bus[i].rd)

\* A burst of twelve different bytes was decoded and returned.
C8_Witness ==
    /\ ReturnedSample
    /\ bus[Len(bus)].rd = <<1, 2, 3, 4, 5, 6, 7, 8, 9, 10, 11, 12>>

\* C9: Config::default() is ctrl1 = 0b0010_0000, ctrl7 = 0; initialize with
\* it writes 0x20 to CTRL1 (0x02) and 0x00 to CTRL7 (0x08).
C9_DefaultConfig ==
    /\ (pc = "build" /\ applied = {}) => config = [ctrl1 |-> 32, ctrl7 |-> 0]
    /\ (Returned("initialize") /\ applied = {}) =>
           /\ bus[1].wr = <<2, 32>>
           /\ Len(bus) = 2 => bus[2].wr = <<8, 0>>
           /\ result.tag = "Ok" => Len(bus) = 2

\* initialize(Config::default()) succeeded.
C9_Witness ==
    Returned("initialize") /\ applied = {} /\ result.tag = "Ok" /\ Len(bus) = 2

\* C10: read_chip_id is one 1-byte write_read at WHO_AM_I (0x00) and returns
\* the byte read, whatever it is; only a transport failure gives an error.
C10_ChipIdRaw ==
    Returned("read_chip_id") =>
        /\ Len(bus) = 1
        /\ bus[1].kind = "write_read"
        /\ bus[1].addr = address
        /\ bus[1].wr = <<0>>
        /\ bus[1].len = 1
        /\ IF bus[1].res = "Ok"
           THEN Len(bus[1].rd) = 1 /\ result = Ok(bus[1].rd)
           ELSE result = Err(bus[1].res)

\* The device answered 0xFF, which is not the QMI8658A identity.
C10_Witness ==
    Returned("read_chip_id") /\ bus[1].rd = <<255>> /\ result = Ok(<<255>>)

\* C7: once AVAILABLE has been seen, read_imu_data leaves its wait loop only
\* with LOCKED set in the latest status (it then issues the burst read) or
\* with a failed transaction, so a status read that succeeds with LOCKED clear
\* always leads to another one; with LOCKED seen the call does return, a
\* sample or the burst read's error; and a call that never returns is one
\* whose status reads show LOCKED clear for ever.
C7_WaitUntilLockedOrFailure ==
    /\ [][(pc = "imu_wait" /\ pc' # "imu_wait") =>
              /\ pc' = "ret"
              /\ \/ BitSet(status_int, 1) /\ IsBurstRead(bus'[Len(bus')])
                 \/ bus'[Len(bus')].res # "Ok" /\ result'.tag = "Err"]_vars
    /\ (pc = "imu_wait" /\ BitSet(status_int, 1))
           ~> (pc = "ret" /\ (ReturnedSample \/ result.tag = "Err"))
    /\ \/ [](pc = "imu_wait" => <>(pc = "ret"))
       \/ <>[](pc = "imu_wait" /\ ~BitSet(status_int, 1))

\* Not a property of the driver: that every read_imu_data call that entered
\* the wait loop returns.  Under LiveSpec it fails on a behaviour whose status
\* reads answer LOCKED clear for ever.
ImuCallAlwaysReturns == (pc = "imu_wait") ~> (pc = "ret")

\* The loop is still waiting after more polls than the window holds, every
\* status read of the call answered with the same byte 0x01.
C7_Witness ==
    /\ pc = "imu_wait"
    /\ Len(bus) = MaxPolls + 1
    /\ turn = (MaxPolls + 1) % 2
    /\ \A i \in 1 .. Len(bus) : bus[i].res = "Ok" /\ bus[i].rd = <<1>>

\* C11: read_temperature is one transaction, a 2-byte write_read at TEMP_L
\* (0x33); it reads no status register, and what it returns is the two bytes
\* read, decoded as a little-endian signed 16-bit value, and nothing else
\* (bytes 00 01 give 256).
C11_TemperatureRead ==
    Returned("read_temperature") =>
        /\ Len(bus) = 1
        /\ ~IsStatusRead(bus[1])
        /\ bus[1].kind = "write_read"
        /\ bus[1].addr = address
        /\ bus[1].wr = <<51>>
        /\ bus[1].len = 2
        /\ IF bus[1].res = "Ok"
           THEN /\ Len(bus[1].rd) = 2
                /\ result = Ok(<<S16(bus[1].rd[1], bus[1].rd[2])>>)
                /\ bus[1].rd = <<0, 1>> => result = Ok(<<256>>)
           ELSE result = Err(bus[1].res)

\* The sensor answered 00 01.
C11_Witness ==
    Returned("read_temperature") /\ bus[1].rd = <<0, 1>> /\ result = Ok(<<256>>)

\* C12: when the CTRL1 write succeeds and the CTRL7 write fails, initialize
\* has issued exactly these two writes and no compensating one, so the only
\* register written is CTRL1; and what it returns is the transport's error
\* alone, the same value a failed CTRL1 write with that error gives.
C12_NoRollback ==
    (Returned("initialize") /\ Len(bus) >= 2 /\ bus[2].res # "Ok") =>
        /\ Len(bus) = 2
        /\ bus[1].res = "Ok" /\ bus[1].wr = <<2, config.ctrl1>>
        /\ bus[2].wr = <<8, config.ctrl7>>
        /\ \A i \in 1 .. Len(bus) : bus[i].res = "Ok" => bus[i].wr[1] = 2
        /\ result = [tag |-> "Err", err |-> bus[2].res, val |-> <<>>]
        /\ result = initialize(address, config, bus[2].res, "Ok").result

\* CTRL1 was written with a non-default byte and the CTRL7 write failed.
C12_Witness ==
    /\ Returned("initialize")
    /\ Len(bus) = 2
    /\ bus[1].res = "Ok"
    /\ bus[2].res = "Nack"
    /\ config.ctrl1 # 32
    /\ config.ctrl7 # 0

\* C13: the driver keeps no state but its address: the address never changes,
\* every transaction of every operation goes to it, and between two calls
\* nothing of the earlier call is left (no status, transaction, result or
\* Config), so a call's transactions and result are decided by the answers of
\* the transport during that call.
C13_Stateless ==
    /\ [][address' = address]_vars
    /\ [](\A i \in 1 .. Len(bus) : bus[i].addr = address)
    /\ [](pc = "idle" =>
              /\ op = "none"
              /\ status_int = 0
              /\ turn = 0
              /\ bus = <<>>
              /\ result = Pending
              /\ config = [ctrl1 |-> 32, ctrl7 |-> 0]
              /\ applied = {})
    /\ [](pc = "ret" /\ op # "read_imu_data" => status_int = 0)

\* A driver constructed with 0x6A has polled, burst-read and returned.
C13_Witness ==
    /\ address = 106
    /\ ReturnedSample
    /\ Len(bus) >= 3
    /\ \A i \in 1 .. Len(bus) : bus[i].addr = 106

\* C14: read_imu_data tests AVAILABLE on its first status read only: every
\* later transaction of the call supposes the first status had AVAILABLE; a
\* later status read with LOCKED set, whatever its AVAILABLE bit, is followed
\* by the burst read; and once in the wait loop the call returns a sample or
\* a transport error, never "no sample".
C14_ForwardOnly ==
    InImu =>
        /\ Len(bus) >= 2 => SawAvailable(bus[1])
        /\ \A i \in 2 .. Len(bus) :
               SawLocked(bus[i]) =>
                   \/ i < Len(bus) /\ IsBurstRead(bus[i + 1])
                   \/ i = Len(bus) /\ pc = "imu_wait" /\ status_int = bus[i].rd[1]
        /\ (Len(bus) >= 2 /\ pc = "ret") => (ReturnedSample \/ result.tag = "Err")
        /\ pc \in {"imu_wait", "ret"}

\* In the wait loop the sensor answered 0x02 (LOCKED set, AVAILABLE clear) and
\* the call returned a sample.
C14_Witness ==
    /\ ReturnedSample
    /\ Len(bus) >= 3
    /\ bus[Len(bus) - 1].rd = <<2>>

\* The status reads of the call that succeeded with LOCKED clear.
UnlockedReads ==
    {i \in 1 .. Len(bus) :
        IsStatusRead(bus[i]) /\ bus[i].res = "Ok" /\ ~BitSet(bus[i].rd[1], 1)}
StatusReads == {i \in 1 .. Len(bus) : IsStatusRead(bus[i])}

\* C15: a read_imu_data call that returns a sample has made one status read
\* more than the status reads that showed LOCKED clear; when the first status
\* has AVAILABLE and LOCKED both set the call is one status read and the
\* burst read.
C15_StatusReadCount ==
    ReturnedSample =>
        /\ Cardinality(StatusReads) = 1 + Cardinality(UnlockedReads)
        /\ (BitSet(bus[1].rd[1], 0) /\ BitSet(bus[1].rd[1], 1)) =>
               /\ Len(bus) = 2
               /\ IsStatusRead(bus[1])
               /\ IsBurstRead(bus[2])

\* The first status byte was 0x03.
C15_Witness == ReturnedSample /\ bus[1].rd = <<3>> /\ Len(bus) = 2

\* The register and the bit the option table gives each option.
OptionOnCtrl1(o) ==
    o \in {"internal_high_speed_oscillator_disabled", "fifo_interrupt_mapped_to_int1",
           "int1_pin_output_enabled", "int2_pin_output_enabled",
           "little_endian_data", "address_auto_increment", "3_wire_spi"}

OptionBit(o) ==
    CASE o \in {"internal_high_speed_oscillator_disabled", "accelerometer_enabled"} -> 0
      [] o = "gyroscope_enabled" -> 1
      [] o = "fifo_interrupt_mapped_to_int1" -> 2
      [] o = "int1_pin_output_enabled" -> 3
      [] o \in {"int2_pin_output_enabled", "gyro_in_snooze_mode"} -> 4
      [] o \in {"little_endian_data", "data_ready_disabled"} -> 5
      [] o = "address_auto_increment" -> 6
      [] o \in {"3_wire_spi", "sync_sample_enabled"} -> 7

\* Bytes x and y agree on every bit but bit n.
SameButBit(x, y, n) == \A k \in (0 .. 7) \ {n} : BitSet(x, k) <=> BitSet(y, k)

\* C16: chaining an option that is already chained leaves the Config as it
\* is; chaining a new option changes at most that option's bit of its own
\* register and nothing of the other register; and once
\* with_little_endian_data is chained, ctrl1 bit 5 is clear and stays clear.
C16_OptionFrame ==
    /\ [][(pc = "build" /\ pc' = "build") =>
              IF applied' = applied
              THEN config' = config
              ELSE \E o \in Options \ applied :
                       /\ applied' = applied \cup {o}
                       /\ IF OptionOnCtrl1(o)
                          THEN /\ config'.ctrl7 = config.ctrl7
                               /\ SameButBit(config'.ctrl1, config.ctrl1, OptionBit(o))
                          ELSE /\ config'.ctrl1 = config.ctrl1
                               /\ SameButBit(config'.ctrl7, config.ctrl7, OptionBit(o))]_vars
    /\ [](pc = "build" =>
              (BitSet(config.ctrl1, 5) <=> "little_endian_data" \notin applied))

\* with_little_endian_data and options of both registers are chained: bit 5 is
\* clear, the other options' bits are set.
C16_Witness ==
    /\ pc = "build"
    /\ applied = {"little_endian_data", "3_wire_spi", "gyroscope_enabled"}
    /\ config = [ctrl1 |-> 128, ctrl7 |-> 2]

\* C17: the bits no option names, ctrl1 bit 1 and ctrl7 bits 2, 3 and 6, are
\* zero in every Config built from the default, and in every byte initialize
\* writes to CTRL1 and CTRL7.
C17_UnnamedBitsZero ==
    /\ (pc = "build" \/ op = "initialize") =>
           /\ ~BitSet(config.ctrl1, 1)
           /\ ~BitSet(config.ctrl7, 2)
           /\ ~BitSet(config.ctrl7, 3)
           /\ ~BitSet(config.ctrl7, 6)
    /\ \A i \in 1 .. Len(bus) :
           bus[i].kind = "write" =>
               /\ bus[i].wr[1] = 2 => ~BitSet(bus[i].wr[2], 1)
               /\ bus[i].wr[1] = 8 =>
                      \A k \in {2, 3, 6} : ~BitSet(bus[i].wr[2], k)

\* initialize has written the Config with all twelve options chained.
C17_Witness ==
    /\ Returned("initialize")
    /\ applied = Options
    /\ Len(bus) = 2
    /\ bus[1].wr = <<2, 221>>
    /\ bus[2].wr = <<8, 179>>

\* C18: a status byte is never an error: read_status_int returns the byte it
\* read, whatever it is; an Err result, in any operation, is the error of the
\* call's last transaction, which failed; and a read_imu_data call whose
\* transactions all succeeded has returned Ok or is still in its wait loop.
C18_StatusNeverAnError ==
    /\ Returned("read_status_int") =>
           /\ Len(bus) = 1
           /\ IsStatusRead(bus[1])
           /\ bus[1].res = "Ok" => result = Ok(bus[1].rd)
    /\ result.tag = "Err" =>
           /\ Len(bus) >= 1
           /\ bus[Len(bus)].res # "Ok"
           /\ result.err = bus[Len(bus)].res
    /\ (InImu /\ \A i \in 1 .. Len(bus) : bus[i].res = "Ok") =>
           \/ pc = "imu_wait" /\ result = Pending
           \/ pc = "ret" /\ result.tag = "Ok"

\* read_status_int answered a byte with every bit set.
C18_Witness ==
    Returned("read_status_int") /\ bus[1].rd = <<255>> /\ result = Ok(<<255>>)

====
